---- MODULE Spec2Model ----
(***************************************************************************)
(* Model of src/floyd_warshall.py: class FloydWarshall, the all-pairs      *)
(* shortest-path engine with a lazily maintained distance matrix.          *)
(*                                                                         *)
(* Engine state (the object's fields): n (_n), inf, dist (_dist) and       *)
(* needs_solve (_needs_solve).  valid of the specification is              *)
(* ~needs_solve.  Every method is one action; the loops of add_edge and    *)
(* solve are computed in place, entry by entry, in the order of the code.  *)
(***************************************************************************)
EXTENDS Integers, Sequences, FiniteSets, TLC

VARIABLES
    n,            \* self._n
    inf,          \* self.inf
    dist,         \* self._dist, dist[i][j] for i, j in 0..n-1
    needs_solve,  \* self._needs_solve
    call,         \* the last call made on the engine and its arguments
    ret,          \* how the last call ended: exception, exit taken, value
    old,          \* _dist as it was when the last call started
    old_needs,    \* _needs_solve as it was when the last call started
    edges,        \* every edge <<u, v, weight>> accepted by add_edge so far
    modes,        \* the update_dists values of the accepted add_edge calls
    lazy,         \* _dist of a second engine given the same edges, all lazily
    writes,       \* how many times a caller wrote into a returned matrix
    loop          \* where a running solve() stands: statement, k, i, j, dik

vars == <<n, inf, dist, needs_solve, call, ret, old, old_needs, edges, modes,
          lazy, writes, loop>>

----------------------------------------------------------------------------
(* Bounds of the model *)

\* most distinct edges <<u, v, weight>> a run inserts, three vertices
MaxEdges == 2
\* most distinct edges <<u, v, weight>> a run inserts, four vertices
MaxWideEdges == 4

\* most writes a caller makes into a returned matrix
MaxWrites == 1

\* vertex counts and sentinels the engine is constructed with
NumVs == {3}
Infs == {3, 100}
\* edge weights offered to add_edge
Weights == {-3, 2}

\* the four-vertex configuration: small sentinel, long chains
WideNumVs == {4}
WideInfs == {5, 100}
WideWeights == {-13, 4}

Vertices == 0 .. (n - 1)

EdgeCap == IF n \in WideNumVs THEN MaxWideEdges ELSE MaxEdges

----------------------------------------------------------------------------
(* __init__, lines 71-78 *)

\* the matrix filled with the sentinel, diagonal included
InitDistNoDiagonal(num_v, sentinel) ==
    [i \in 0 .. (num_v - 1) |-> [j \in 0 .. (num_v - 1) |-> sentinel]]

InitDist(num_v, sentinel) ==
    [i \in 0 .. (num_v - 1) |->
        [j \in 0 .. (num_v - 1) |-> IF i = j THEN 0 ELSE sentinel]]

----------------------------------------------------------------------------
(* add_edge, lines 104-137 *)

\* lines 104-106: the three assertions
AddEdgeAsserts(u, v, weight) ==
    /\ 0 <= u /\ u < n
    /\ 0 <= v /\ v < n
    /\ weight < inf

\* the first of lines 104-106 that fails
FailedAssert(u, v, weight) ==
    IF ~(0 <= u /\ u < n) THEN "assert_u"
    ELSE IF ~(0 <= v /\ v < n) THEN "assert_v"
    ELSE "assert_weight"

\* the stale gate left out
AddEdgeStaleNever(update_dists) == FALSE

\* line 108: the stale gate
AddEdgeStale(update_dists) == update_dists /\ needs_solve

\* the relaxation test with > for >=: an equal weight goes on to write
RelaxesOnEqual(d, u, v, weight) == ~(weight > d[u][v])

\* line 113: the relaxation test; TRUE when the call goes on to write
Relaxes(d, u, v, weight) == ~(weight >= d[u][v])

\* the write of line 117 landing on dist[v][u]
RelaxDirectTransposed(d, u, v, weight) == [d EXCEPT ![v][u] = weight]

\* line 117
RelaxDirect(d, u, v, weight) == [d EXCEPT ![u][v] = weight]

\* the inner loop reading dist[j][v] where line 135 reads dist[v][j]
RECURSIVE PropagateJTransposed(_, _, _, _, _)
PropagateJTransposed(d, v, i, tmp, j) ==
    IF j >= n THEN d
    ELSE IF d[v][j] = inf THEN PropagateJTransposed(d, v, i, tmp, j + 1)
    ELSE LET c == tmp + d[j][v]
         IN IF c < d[i][j]
            THEN PropagateJTransposed([d EXCEPT ![i][j] = c], v, i, tmp, j + 1)
            ELSE PropagateJTransposed(d, v, i, tmp, j + 1)

\* the inner loop passing over the diagonal entry j = i
RECURSIVE PropagateJSkipDiagonal(_, _, _, _, _)
PropagateJSkipDiagonal(d, v, i, tmp, j) ==
    IF j >= n THEN d
    ELSE IF d[v][j] = inf \/ j = i
         THEN PropagateJSkipDiagonal(d, v, i, tmp, j + 1)
    ELSE LET c == tmp + d[v][j]
         IN IF c < d[i][j]
            THEN PropagateJSkipDiagonal([d EXCEPT ![i][j] = c], v, i, tmp,
                                        j + 1)
            ELSE PropagateJSkipDiagonal(d, v, i, tmp, j + 1)

\* lines 132-137: the inner loop over j for one row i, in place
RECURSIVE PropagateJ(_, _, _, _, _)
PropagateJ(d, v, i, tmp, j) ==
    IF j >= n THEN d
    ELSE IF d[v][j] = inf THEN PropagateJ(d, v, i, tmp, j + 1)
    ELSE LET c == tmp + d[v][j]
         IN IF c < d[i][j]
            THEN PropagateJ([d EXCEPT ![i][j] = c], v, i, tmp, j + 1)
            ELSE PropagateJ(d, v, i, tmp, j + 1)

\* the outer loop without the sentinel test of line 129
RECURSIVE PropagateINoSkip(_, _, _, _, _)
PropagateINoSkip(d, u, v, weight, i) ==
    IF i >= n THEN d
    ELSE PropagateINoSkip(PropagateJ(d, v, i, d[i][u] + weight, 0),
                          u, v, weight, i + 1)

\* lines 128-131: the outer loop over i, in place
RECURSIVE PropagateI(_, _, _, _, _)
PropagateI(d, u, v, weight, i) ==
    IF i >= n THEN d
    ELSE IF d[i][u] = inf THEN PropagateI(d, u, v, weight, i + 1)
    ELSE PropagateI(PropagateJ(d, v, i, d[i][u] + weight, 0),
                    u, v, weight, i + 1)

\* the loops run with u and v exchanged
PropagateSwapped(d, u, v, weight) ==
    PropagateI(RelaxDirect(d, u, v, weight), v, u, weight, 0)

\* lines 116-137 with update_dists = True
Propagate(d, u, v, weight) ==
    PropagateI(RelaxDirect(d, u, v, weight), u, v, weight, 0)

\* lines 113-121 on a matrix, update_dists = False
LazyAdd(d, u, v, weight) ==
    IF Relaxes(d, u, v, weight) THEN RelaxDirect(d, u, v, weight) ELSE d

----------------------------------------------------------------------------
(* solve, lines 158-167 *)

\* the loop over j writing the sum without the comparison of line 166
RECURSIVE SolveJAssignAlways(_, _, _, _, _)
SolveJAssignAlways(d, k, i, dik, j) ==
    IF j >= n THEN d
    ELSE IF d[k][j] = inf THEN SolveJAssignAlways(d, k, i, dik, j + 1)
    ELSE SolveJAssignAlways([d EXCEPT ![i][j] = dik + d[k][j]], k, i, dik,
                            j + 1)

\* lines 163-167: the loop over j for one (k, i), in place
RECURSIVE SolveJ(_, _, _, _, _)
SolveJ(d, k, i, dik, j) ==
    IF j >= n THEN d
    ELSE IF d[k][j] = inf THEN SolveJ(d, k, i, dik, j + 1)
    ELSE LET c == dik + d[k][j]
         IN IF c < d[i][j]
            THEN SolveJ([d EXCEPT ![i][j] = c], k, i, dik, j + 1)
            ELSE SolveJ(d, k, i, dik, j + 1)

\* the loop over i without the sentinel test of line 160
RECURSIVE SolveINoSkip(_, _, _)
SolveINoSkip(d, k, i) ==
    IF i >= n THEN d
    ELSE SolveINoSkip(SolveJ(d, k, i, d[i][k], 0), k, i + 1)

\* lines 159-162: the loop over i for one k
RECURSIVE SolveI(_, _, _)
SolveI(d, k, i) ==
    IF i >= n THEN d
    ELSE IF d[i][k] = inf THEN SolveI(d, k, i + 1)
    ELSE SolveI(SolveJ(d, k, i, d[i][k], 0), k, i + 1)

\* the loop over k stopping one vertex early
RECURSIVE SolveKShort(_, _)
SolveKShort(d, k) ==
    IF k >= n - 1 THEN d ELSE SolveKShort(SolveI(d, k, 0), k + 1)

\* line 158: the loop over k
RECURSIVE SolveK(_, _)
SolveK(d, k) ==
    IF k >= n THEN d ELSE SolveK(SolveI(d, k, 0), k + 1)

FullSolve(d) == SolveK(d, 0)

\* the early return taken in every state: solve never runs its loops
SolveSkipsAlways(stale) == TRUE

\* the early return left out: solve always runs its loops
SolveSkipsNever(stale) == FALSE

\* line 151: solve returns at once when the matrix is up to date
SolveSkips(stale) == ~stale

----------------------------------------------------------------------------
(* solve statement by statement, lines 151-170 *)

\* no solve() is running
Idle == [at |-> "idle", k |-> 0, i |-> 0, j |-> 0, dik |-> 0]

At(at, k, i, j, dik) == [at |-> at, k |-> k, i |-> i, j |-> j, dik |-> dik]

\* line 158: the head of the loop over k; past the last k, go to line 169
ForK(l) ==
    IF l.k < n THEN At("for_i", l.k, 0, 0, 0) ELSE At("done", 0, 0, 0, 0)

\* the head of the loop over i whose continue does not move on to the next i
ForIContinueStuck(l, d) ==
    IF l.i >= n THEN At("for_k", l.k + 1, 0, 0, 0)
    ELSE IF d[l.i][l.k] = inf THEN l
    ELSE At("for_j", l.k, l.i, 0, d[l.i][l.k])

\* lines 159-162: the head of the loop over i, the sentinel test and dik
ForI(l, d) ==
    IF l.i >= n THEN At("for_k", l.k + 1, 0, 0, 0)
    ELSE IF d[l.i][l.k] = inf THEN At("for_i", l.k, l.i + 1, 0, 0)
    ELSE At("for_j", l.k, l.i, 0, d[l.i][l.k])

\* line 163: the head of the loop over j
ForJ(l) ==
    IF l.j >= n THEN At("for_i", l.k, l.i + 1, 0, 0)
    ELSE At("for_j", l.k, l.i, l.j + 1, l.dik)

\* lines 164-167: the body of the loop over j
BodyJ(d, l) ==
    IF l.j >= n \/ d[l.k][l.j] = inf THEN d
    ELSE IF l.dik + d[l.k][l.j] < d[l.i][l.j]
         THEN [d EXCEPT ![l.i][l.j] = l.dik + d[l.k][l.j]]
         ELSE d

----------------------------------------------------------------------------
(* has_negative_cycle, line 205 *)

\* the test of line 205 with <= for <
AnyNonPositiveDiagonal(d) == \E v \in Vertices : d[v][v] <= 0

AnyNegativeDiagonal(d) == \E v \in Vertices : d[v][v] < 0

----------------------------------------------------------------------------
(* Calls and their outcomes *)

\* a call that raises is recorded without its u, v and weight
Call(op, u, v, weight, update_dists) ==
    [op |-> op, u |-> u, v |-> v, weight |-> weight,
     update_dists |-> update_dists]

Ret(exc, at, val) == [exc |-> exc, at |-> at, val |-> val]

\* every call records the state it started from
Snapshot ==
    /\ old' = dist
    /\ old_needs' = needs_solve

----------------------------------------------------------------------------
(* The state after construction, lines 71-78 *)

InitWith(num_vs, sentinels) ==
    /\ n \in num_vs
    /\ inf \in sentinels
    /\ inf > 0
    /\ dist = InitDist(n, inf)
    /\ needs_solve = FALSE
    /\ call = Call("__init__", 0, 0, 0, FALSE)
    /\ ret = Ret("none", "constructed", FALSE)
    /\ old = InitDist(n, inf)
    /\ old_needs = FALSE
    /\ edges = {}
    /\ modes = {}
    /\ lazy = InitDist(n, inf)
    /\ writes = 0
    /\ loop = Idle

Init == InitWith(NumVs, Infs)

InitWide == InitWith(WideNumVs, WideInfs)

----------------------------------------------------------------------------
(* add_edge, lines 80-137 *)

\* lines 113-137: the call once the assertions and the stale gate are passed
AddEdgeBody(u, v, weight, update_dists) ==
    /\ call' = Call("add_edge", u, v, weight, update_dists)
    /\ <<u, v, weight>> \in edges \/ Cardinality(edges) < EdgeCap
    /\ edges' = edges \cup {<<u, v, weight>>}
    /\ modes' = modes \cup {update_dists}
    /\ lazy' = LazyAdd(lazy, u, v, weight)
    /\ IF ~Relaxes(dist, u, v, weight)
       THEN /\ ret' = Ret("none", "noop", FALSE)
            /\ UNCHANGED <<dist, needs_solve>>
       ELSE IF ~update_dists
       THEN /\ ret' = Ret("none", "lazy", FALSE)
            /\ dist' = RelaxDirect(dist, u, v, weight)
            /\ needs_solve' = TRUE
       ELSE /\ ret' = Ret("none", "propagated", FALSE)
            /\ dist' = Propagate(dist, u, v, weight)
            /\ UNCHANGED needs_solve

\* add_edge with line 117 moved above the stale gate of line 108
AddEdgeWriteFirst(u, v, weight, update_dists) ==
    /\ Snapshot
    /\ UNCHANGED <<n, inf, writes, loop>>
    /\ IF ~AddEdgeAsserts(u, v, weight)
       THEN /\ call' = Call("add_edge", 0, 0, 0, update_dists)
            /\ ret' = Ret("AssertionError", FailedAssert(u, v, weight), FALSE)
            /\ UNCHANGED <<dist, needs_solve, edges, modes, lazy>>
       ELSE IF AddEdgeStale(update_dists)
       THEN /\ call' = Call("add_edge", 0, 0, 0, update_dists)
            /\ ret' = Ret("RuntimeError", "stale", FALSE)
            /\ dist' = LazyAdd(dist, u, v, weight)
            /\ UNCHANGED <<needs_solve, edges, modes, lazy>>
       ELSE AddEdgeBody(u, v, weight, update_dists)

AddEdge(u, v, weight, update_dists) ==
    /\ Snapshot
    /\ UNCHANGED <<n, inf, writes, loop>>
    /\ IF ~AddEdgeAsserts(u, v, weight)
       THEN /\ call' = Call("add_edge", 0, 0, 0, update_dists)
            /\ ret' = Ret("AssertionError", FailedAssert(u, v, weight), FALSE)
            /\ UNCHANGED <<dist, needs_solve, edges, modes, lazy>>
       ELSE IF AddEdgeStale(update_dists)
       THEN /\ call' = Call("add_edge", 0, 0, 0, update_dists)
            /\ ret' = Ret("RuntimeError", "stale", FALSE)
            /\ UNCHANGED <<dist, needs_solve, edges, modes, lazy>>
       ELSE AddEdgeBody(u, v, weight, update_dists)

(* solve, lines 139-170 *)

Solve ==
    /\ call' = Call("solve", 0, 0, 0, FALSE)
    /\ Snapshot
    /\ UNCHANGED <<n, inf, edges, modes, lazy, writes, loop>>
    /\ IF SolveSkips(needs_solve)
       THEN /\ ret' = Ret("none", "skipped", FALSE)
            /\ UNCHANGED <<dist, needs_solve>>
       ELSE /\ ret' = Ret("none", "solved", FALSE)
            /\ dist' = FullSolve(dist)
            /\ needs_solve' = FALSE

\* lines 149-157: solve is called; it returns at once or enters its loops
SolveBegin ==
    /\ loop = Idle
    /\ call' = Call("solve", 0, 0, 0, FALSE)
    /\ Snapshot
    /\ UNCHANGED <<n, inf, dist, needs_solve, edges, modes, lazy, writes>>
    /\ IF SolveSkips(needs_solve)
       THEN /\ ret' = Ret("none", "skipped", FALSE)
            /\ UNCHANGED loop
       ELSE /\ ret' = Ret("none", "running", FALSE)
            /\ loop' = At("for_k", 0, 0, 0, 0)

\* lines 158-170: the running solve executes its next statement
SolveStep ==
    /\ loop # Idle
    /\ UNCHANGED <<n, inf, call, old, old_needs, edges, modes, lazy, writes>>
    /\ CASE loop.at = "for_k" ->
               /\ loop' = ForK(loop)
               /\ UNCHANGED <<dist, needs_solve, ret>>
         [] loop.at = "for_i" ->
               /\ loop' = ForI(loop, dist)
               /\ UNCHANGED <<dist, needs_solve, ret>>
         [] loop.at = "for_j" ->
               /\ loop' = ForJ(loop)
               /\ dist' = BodyJ(dist, loop)
               /\ UNCHANGED <<needs_solve, ret>>
         [] loop.at = "done" ->
               /\ loop' = Idle
               /\ needs_solve' = FALSE
               /\ ret' = Ret("none", "solved", FALSE)
               /\ UNCHANGED dist

(* dist (property), lines 172-188 *)

Dist ==
    /\ call' = Call("dist", 0, 0, 0, FALSE)
    /\ Snapshot
    /\ UNCHANGED <<n, inf, dist, needs_solve, edges, modes, lazy, writes,
                   loop>>
    /\ IF needs_solve
       THEN ret' = Ret("RuntimeError", "stale", FALSE)
       ELSE ret' = Ret("none", "matrix", FALSE)

(* has_negative_cycle, lines 190-205 *)

HasNegativeCycle ==
    /\ call' = Call("has_negative_cycle", 0, 0, 0, FALSE)
    /\ Snapshot
    /\ UNCHANGED <<n, inf, dist, needs_solve, edges, modes, lazy, writes,
                   loop>>
    /\ IF needs_solve
       THEN ret' = Ret("RuntimeError", "stale", FALSE)
       ELSE ret' = Ret("none", "value", AnyNegativeDiagonal(dist))

(* a caller's write to the list that solve() or dist has just returned:
   lines 152, 170 and 188 return self._dist itself, not a copy *)

\* the write lands on a private copy and the engine's matrix keeps its entry
WriteToCopy(d, i, j, x) == d

\* the write lands on the engine's own matrix
WriteThrough(d, i, j, x) == [d EXCEPT ![i][j] = x]

CallerWrite(i, j, x) ==
    /\ ret.at \in {"skipped", "solved", "matrix"}
    /\ writes < MaxWrites
    /\ writes' = writes + 1
    /\ call' = Call("caller_write", i, j, x, FALSE)
    /\ ret' = Ret("none", "written", FALSE)
    /\ Snapshot
    /\ dist' = WriteThrough(dist, i, j, x)
    /\ UNCHANGED <<n, inf, needs_solve, edges, modes, lazy, loop>>

----------------------------------------------------------------------------
(* Specifications *)

\* arguments that break an assertion of add_edge: an index one past the end,
\* an index before the start, a weight equal to the sentinel
BadArgs == {<<n, 0, 2>>, <<0, -1, 2>>, <<0, 1, inf>>}

Next ==
    \/ \E u \in Vertices, v \in Vertices, w \in Weights, p \in BOOLEAN :
          AddEdge(u, v, w, p)
    \/ \E a \in BadArgs, p \in BOOLEAN : AddEdge(a[1], a[2], a[3], p)
    \/ Solve
    \/ Dist
    \/ HasNegativeCycle

Spec == Init /\ [][Next]_vars

\* the four-vertex runs insert the arcs of the ring 0 -> 1 -> 2 -> 3 -> 0
NextWide ==
    \/ \E u \in Vertices, w \in WideWeights, p \in BOOLEAN :
          AddEdge(u, (u + 1) % n, w, p)
    \/ \E a \in BadArgs, p \in BOOLEAN : AddEdge(a[1], a[2], a[3], p)
    \/ Solve
    \/ Dist
    \/ HasNegativeCycle

SpecWide == InitWide /\ [][NextWide]_vars

\* the engine together with a caller that writes into the returned list
\* its runs insert forward arcs u -> v, u < v, only
NextAlias ==
    \/ \E u \in Vertices, v \in Vertices, w \in Weights, p \in BOOLEAN :
          u < v /\ AddEdge(u, v, w, p)
    \/ Solve
    \/ Dist
    \/ HasNegativeCycle
    \/ \E j \in Vertices, x \in Weights : CallerWrite(0, j, x)

SpecAlias == Init /\ [][NextAlias]_vars

\* solve runs statement by statement between the calls of add_edge.  The
\* engine is called from one thread: a call of add_edge is made only while
\* no solve() is running, and a running solve() is never suspended, so its
\* next statement is always taken (weak fairness of SolveStep).
NextSteps ==
    \/ \E u \in Vertices, v \in Vertices, w \in Weights, p \in BOOLEAN :
          loop = Idle /\ AddEdge(u, v, w, p)
    \/ SolveBegin
    \/ SolveStep

SpecSteps == Init /\ [][NextSteps]_vars /\ WF_vars(SolveStep)

----------------------------------------------------------------------------
(* Shortest paths of the inserted edge set, defined without the matrix *)

\* WalksIn(E, k)[i][j]: the costs of the walks from i to j that use at most
\* k of the edges of E
RECURSIVE WalksIn(_, _)
WalksIn(E, k) ==
    IF k = 0
    THEN [i \in Vertices |-> [j \in Vertices |-> IF i = j THEN {0} ELSE {}]]
    ELSE LET prev == WalksIn(E, k - 1)
         IN [i \in Vertices |-> [j \in Vertices |->
                prev[i][j] \cup
                UNION {{c + e[3] : c \in prev[i][e[1]]} :
                       e \in {x \in E : x[2] = j}}]]

\* the same over the edges inserted so far
Walks(k) == WalksIn(edges, k)

Costs(i, j, k) == Walks(k)[i][j]

Least(S) == CHOOSE x \in S : \A y \in S : x <= y

\* a path visits no vertex twice, so it has at most n - 1 edges: Walks(n - 1)
\* holds the cost of every path, and a negative cycle shows in Walks(n)

\* some closed walk of at most n edges costs less than 0
NegativeCycle ==
    LET closed == Walks(n) IN \E i \in Vertices : \E c \in closed[i][i] : c < 0

\* the sentinel is larger than every sum of path costs
SentinelLarge ==
    LET paths == Walks(n - 1)
    IN \A i \in Vertices, j \in Vertices : \A c \in paths[i][j] : c < inf

Valid == ~needs_solve

----------------------------------------------------------------------------
(* Claims *)

\* C1: whenever valid = true, and the inserted edges hold no negative cycle
\* and the sentinel is larger than every sum of path costs, distance[i][j]
\* is the true shortest-path cost from i to j for all i and j (0 on the
\* diagonal, the sentinel when there is no path).
ValidMeansShortest ==
    (Valid /\ ~NegativeCycle /\ SentinelLarge)
        => LET paths == Walks(n - 1)
           IN \A i \in Vertices, j \in Vertices :
                 dist[i][j] = IF paths[i][j] # {} THEN Least(paths[i][j])
                              ELSE inf

\* a valid matrix built in both modes that holds a two-edge shortest path
ValidMeansShortestWitness ==
    /\ Valid /\ ~NegativeCycle /\ SentinelLarge
    /\ modes = {TRUE, FALSE}
    /\ \E i \in Vertices, j \in Vertices :
          /\ i # j
          /\ dist[i][j] < inf
          /\ \A e \in edges : ~(e[1] = i /\ e[2] = j)

\* C2 as stated: after a run of add_edge(update_dists=True) calls only, with
\* no negative cycle, the matrix equals the one a second engine gets from the
\* same edges inserted lazily and one solve().
IncrementalEqualsFull ==
    (modes \subseteq {TRUE} /\ ~NegativeCycle) => dist = FullSolve(lazy)

\* C2 amended: the same, provided also that the sentinel is larger than
\* every sum of path costs.
IncrementalEqualsFullLargeSentinel ==
    (modes \subseteq {TRUE} /\ ~NegativeCycle /\ SentinelLarge)
        => dist = FullSolve(lazy)

\* three edges propagated one by one, chained into a three-edge path
IncrementalEqualsFullWitness ==
    /\ modes = {TRUE} /\ ~NegativeCycle /\ SentinelLarge
    /\ Cardinality(edges) >= 3
    /\ \E i \in Vertices, j \in Vertices :
          /\ i # j
          /\ dist[i][j] < inf
          /\ Costs(i, j, 2) = {}

\* C3 as stated: after any add_edge(update_dists=False) call that does not
\* fail an assertion, whatever its weight and whatever the state it was made
\* in, the matrix is stale (valid = false).
StaleAfterAnyLazyInsert ==
    (call.op = "add_edge" /\ ~call.update_dists /\ ret.exc = "none")
        => needs_solve

\* a call that the stale gate must stop: dist, has_negative_cycle, or an
\* add_edge(update_dists=True) whose arguments pass the assertions
GatedCall(c, r) ==
    \/ c.op \in {"dist", "has_negative_cycle"}
    \/ c.op = "add_edge" /\ c.update_dists /\ r.exc # "AssertionError"

\* C3 amended: after an add_edge(update_dists=False) call that relaxes
\* (weight < distance[u][v]) the matrix is stale, and while it is stale every
\* call other than solve() leaves it stale and every dist,
\* has_negative_cycle() and add_edge(update_dists=True) call raises
\* RuntimeError (the stale-state error).
StaleGate ==
    /\ [](ret.at = "lazy" => needs_solve)
    /\ [][(needs_solve /\ call'.op # "solve")
            => /\ needs_solve'
               /\ GatedCall(call', ret') => ret'.exc = "RuntimeError"]_vars

\* a propagating add_edge stopped by the gate after a second lazy insertion
StaleGateWitness ==
    /\ needs_solve /\ old_needs
    /\ call.op = "add_edge" /\ call.update_dists
    /\ ret.exc = "RuntimeError"
    /\ Cardinality(edges) >= 2

\* C4: every call that fails (RuntimeError in the stale state, AssertionError
\* of add_edge in either state) leaves the matrix and the valid flag exactly
\* as they were before the call.
FailureLeavesState ==
    ret.exc # "none" => (dist = old /\ needs_solve = old_needs)

\* add_edge(update_dists=True) raising in the stale state with a weight
\* that would have relaxed some entry
FailureLeavesStateWitness ==
    /\ call.op = "add_edge" /\ call.update_dists
    /\ ret.exc = "RuntimeError"
    /\ needs_solve
    /\ \E u \in Vertices, v \in Vertices, w \in Weights \cup WideWeights :
          w < inf /\ Relaxes(dist, u, v, w)

\* C5: add_edge(u, v, weight, update_dists) with weight >= distance[u][v]
\* changes no entry of the matrix and does not change valid, for either value
\* of update_dists.
NoOpOnNonImproving ==
    (call.op = "add_edge" /\ ret.exc = "none"
        /\ call.weight >= old[call.u][call.v])
        => (dist = old /\ needs_solve = old_needs)

\* a lazy insertion of a weight equal to the entry, made in the valid state
NoOpOnNonImprovingWitness ==
    /\ call.op = "add_edge" /\ ret.at = "noop"
    /\ ~call.update_dists
    /\ ~needs_solve
    /\ call.u # call.v
    /\ call.weight = old[call.u][call.v]

\* C6 as stated: after edges inserted lazily only and one solve(),
\* has_negative_cycle() returns true if and only if the inserted edges hold
\* a cycle of negative total weight.
DetectsNegativeCycle ==
    (call.op = "has_negative_cycle" /\ ret.exc = "none"
        /\ modes \subseteq {FALSE} /\ dist = FullSolve(lazy))
        => (ret.val <=> NegativeCycle)

\* C6 amended: the same, provided the sentinel is larger than every sum of
\* path costs; and the value returned is always exactly whether some v has
\* distance[v][v] < 0, which never happens without a negative cycle.
DetectsNegativeCycleLargeSentinel ==
    (call.op = "has_negative_cycle" /\ ret.exc = "none")
        => /\ ret.val <=> (\E v \in Vertices : dist[v][v] < 0)
           /\ ret.val => NegativeCycle
           /\ (modes \subseteq {FALSE} /\ SentinelLarge)
                 => (ret.val <=> NegativeCycle)

\* has_negative_cycle() answering true for a negative cycle of lazily
\* inserted edges that is no self-loop
DetectsNegativeCycleWitness ==
    /\ call.op = "has_negative_cycle" /\ ret.exc = "none"
    /\ modes = {FALSE} /\ SentinelLarge
    /\ ret.val /\ NegativeCycle
    /\ \A e \in edges : e[1] # e[2]

\* C7: a relaxing add_edge(u, v, w, update_dists=True) leaves unchanged every
\* entry (i, j) other than (u, v) with distance[i][u] = sentinel or
\* distance[v][j] = sentinel before the call, strictly decreases every entry
\* it changes, and leaves valid true.
PropagationFrame ==
    ret.at = "propagated"
        => /\ ~needs_solve /\ ~old_needs
           /\ \A i \in Vertices, j \in Vertices :
                /\ (<<i, j>> # <<call.u, call.v>>
                      /\ (old[i][call.u] = inf \/ old[call.v][j] = inf))
                     => dist[i][j] = old[i][j]
                /\ dist[i][j] # old[i][j] => dist[i][j] < old[i][j]

\* a propagation that changed an entry other than (u, v) and met an entry
\* shielded by a sentinel
PropagationFrameWitness ==
    /\ ret.at = "propagated"
    /\ \E i \in Vertices, j \in Vertices :
          <<i, j>> # <<call.u, call.v>> /\ dist[i][j] # old[i][j]
    /\ \E i \in Vertices, j \in Vertices :
          /\ <<i, j>> # <<call.u, call.v>>
          /\ old[i][call.u] = inf
          /\ old[call.v][j] # inf

\* C8: solve() called in the valid state returns at once and changes no
\* entry; solve() always leaves valid true; and a second solve() right after
\* a solve() leaves the matrix and the flag as the first left them.
SolveIdempotent ==
    /\ [](call.op = "solve"
            => /\ ~needs_solve
               /\ ~old_needs => (dist = old /\ ret.at = "skipped"))
    /\ [][(call.op = "solve" /\ call'.op = "solve")
            => (dist' = dist /\ needs_solve' = needs_solve)]_vars

\* a second solve() in a row on a matrix that holds a negative cycle, where
\* running the loops again would lower entries
SolveIdempotentWitness ==
    /\ call.op = "solve" /\ ret.at = "skipped"
    /\ dist = old
    /\ FullSolve(dist) # dist

\* C9: after solve(), with a sentinel larger than every sum of path costs,
\* distance[i][j] = sentinel if and only if i # j and the inserted edges hold
\* no path from i to j.
SentinelIffUnreachable ==
    (call.op = "solve" /\ SentinelLarge)
        => LET paths == Walks(n - 1)
           IN \A i \in Vertices, j \in Vertices :
                 dist[i][j] = inf <=> (i # j /\ paths[i][j] = {})

\* a solve() that ran its loops and left both a sentinel entry and a finite
\* entry that no single edge gives
SentinelIffUnreachableWitness ==
    /\ call.op = "solve" /\ ret.at = "solved" /\ SentinelLarge
    /\ \E i \in Vertices, j \in Vertices : dist[i][j] = inf
    /\ \E i \in Vertices, j \in Vertices :
          /\ i # j /\ dist[i][j] < inf
          /\ \A e \in edges : ~(e[1] = i /\ e[2] = j)

\* C10 as stated: a write performed by the caller on the matrix returned by
\* solve() or dist cannot change any distance[i][j] held by the engine.
CallerWriteHarmless ==
    call.op = "caller_write" => dist = old

\* C10 amended: solve() and dist return the engine's own matrix, no copy, so
\* a caller's write to entry (i, j) of the returned matrix sets the engine's
\* distance[i][j] and nothing else; apart from such writes the matrix
\* changes only through add_edge and solve.
MatrixChangesOnlyThrough ==
    /\ dist # old => call.op \in {"add_edge", "solve", "caller_write"}
    /\ call.op = "caller_write"
         => /\ dist[call.u][call.v] = call.weight
            /\ \A i \in Vertices, j \in Vertices :
                  <<i, j>> # <<call.u, call.v>> => dist[i][j] = old[i][j]
            /\ needs_solve = old_needs

\* a caller's write that changed an entry of a matrix the engine holds valid
MatrixChangesOnlyThroughWitness ==
    /\ call.op = "caller_write"
    /\ dist # old
    /\ ~needs_solve
    /\ edges # {}

\* C11: the engine starts valid, so dist succeeds before any solve(); valid
\* turns false only by an add_edge(update_dists=False) that relaxes; a
\* relaxing add_edge(update_dists=True) made in the valid state leaves it
\* valid; an add_edge(update_dists=False) made in the stale state leaves it
\* stale; valid turns true only by solve(), and in the valid state dist,
\* has_negative_cycle() and add_edge(update_dists=True) do not raise
\* RuntimeError.
TransitionTable ==
    /\ call.op = "__init__" => ~needs_solve
    /\ (~old_needs /\ needs_solve)
         => /\ call.op = "add_edge" /\ ~call.update_dists /\ ret.exc = "none"
            /\ call.weight < old[call.u][call.v]
    /\ (call.op = "add_edge" /\ call.update_dists /\ ret.exc = "none"
          /\ call.weight < old[call.u][call.v])
         => (~old_needs /\ ~needs_solve)
    /\ (call.op = "add_edge" /\ ~call.update_dists /\ old_needs)
         => needs_solve
    /\ (old_needs /\ ~needs_solve) => call.op = "solve"
    /\ call.op = "solve" => ~needs_solve
    /\ (call.op \in {"dist", "has_negative_cycle"} /\ ~old_needs)
         => ret.exc = "none"
    /\ (call.op = "add_edge" /\ ~old_needs) => ret.exc # "RuntimeError"

\* dist succeeding on a matrix that lazy insertions made stale and a solve()
\* made valid again
TransitionTableWitness ==
    /\ call.op = "dist" /\ ret.at = "matrix"
    /\ modes = {FALSE}
    /\ Cardinality(edges) >= 2
    /\ dist # lazy

\* C12: as long as the inserted edges hold no negative cycle (a negative
\* self-loop is one), distance[i][i] = 0 for all i in every state, valid or
\* stale; and add_edge(u, u, w) with w >= 0 is always a no-op.
ZeroDiagonal ==
    /\ ~NegativeCycle => \A i \in Vertices : dist[i][i] = 0
    /\ (call.op = "add_edge" /\ ret.exc = "none" /\ call.u = call.v
          /\ call.weight >= 0)
         => (dist = old /\ needs_solve = old_needs)

\* a self-loop of weight >= 0 offered in the stale state, an edge of
\* negative weight and no negative cycle in the matrix
ZeroDiagonalWitness ==
    /\ call.op = "add_edge" /\ ret.exc = "none"
    /\ call.u = call.v /\ call.weight >= 0
    /\ needs_solve
    /\ ~NegativeCycle
    /\ \E i \in Vertices, j \in Vertices : i # j /\ dist[i][j] < 0

\* C13: a relaxing add_edge(u, v, weight, update_dists=False), in the valid
\* or the stale state, sets distance[u][v] to weight and valid to false and
\* leaves every other entry, n and the sentinel unchanged.
LazyTouchesOneCell ==
    /\ []((call.op = "add_edge" /\ ret.exc = "none" /\ ~call.update_dists
            /\ call.weight < old[call.u][call.v])
           => /\ needs_solve
              /\ dist[call.u][call.v] = call.weight
              /\ \A i \in Vertices, j \in Vertices :
                    <<i, j>> # <<call.u, call.v>> => dist[i][j] = old[i][j])
    /\ [][call'.op = "add_edge" => (n' = n /\ inf' = inf)]_vars

\* a relaxing lazy insertion made in the stale state next to a finite entry
LazyTouchesOneCellWitness ==
    /\ call.op = "add_edge" /\ ret.at = "lazy"
    /\ old_needs
    /\ call.u # call.v
    /\ \E i \in Vertices, j \in Vertices :
          i # j /\ <<i, j>> # <<call.u, call.v>> /\ dist[i][j] < inf

\* the last call was an add_edge(update_dists=True) that relaxed
RelaxedAndPropagated ==
    /\ call.op = "add_edge" /\ call.update_dists /\ ret.exc = "none"
    /\ call.weight < old[call.u][call.v]

\* C15: after a relaxing add_edge(u, v, w, update_dists=True) that leaves the
\* graph free of negative cycles, distance[i][j] is the smaller of old[i][j]
\* and old[i][u] + w + old[v][j] where old[i][u] and old[v][j] are no
\* sentinels, old being the matrix before the call; column u and row v, the
\* entries the loops read, are as they were before the call.
SnapshotPropagation ==
    (RelaxedAndPropagated /\ ~NegativeCycle)
        => /\ \A i \in Vertices, j \in Vertices :
                dist[i][j] =
                    IF /\ old[i][call.u] # inf
                       /\ old[call.v][j] # inf
                       /\ old[i][call.u] + call.weight + old[call.v][j]
                            < old[i][j]
                    THEN old[i][call.u] + call.weight + old[call.v][j]
                    ELSE old[i][j]
           /\ \A i \in Vertices : dist[i][call.u] = old[i][call.u]
           /\ \A j \in Vertices : dist[call.v][j] = old[call.v][j]

\* a propagation that lowered an entry in a row it read from later: the row
\* of v comes before the row it feeds
SnapshotPropagationWitness ==
    /\ RelaxedAndPropagated /\ ~NegativeCycle
    /\ \E i \in Vertices, j \in Vertices :
          /\ <<i, j>> # <<call.u, call.v>>
          /\ call.v < i
          /\ dist[i][j] < old[i][j]

\* some closed walk of the edges inserted before the last call costs less
\* than 0
NegativeCycleBefore ==
    LET closed == WalksIn(edges \ {<<call.u, call.v, call.weight>>}, n)
    IN \E i \in Vertices : \E c \in closed[i][i] : c < 0

\* the matrix test of the claim: a known path from v back to u that the new
\* edge turns into a closed walk of negative cost
ClosesNegativeCycle ==
    old[call.v][call.u] # inf /\ old[call.v][call.u] + call.weight < 0

\* C16 as stated: on a valid matrix of a graph without negative cycle, right
\* after a relaxing add_edge(u, v, w, update_dists=True) some diagonal entry
\* is negative if and only if the new edge closes a negative cycle, which is
\* the case if and only if distance[v][u] != sentinel and
\* distance[v][u] + w < 0 before the call.
IncrementalDetection ==
    (RelaxedAndPropagated /\ ~NegativeCycleBefore)
        => /\ AnyNegativeDiagonal(dist) <=> NegativeCycle
           /\ NegativeCycle <=> ClosesNegativeCycle

\* C16 amended: the same, provided the sentinel is larger than every sum of
\* path costs.
IncrementalDetectionLargeSentinel ==
    (RelaxedAndPropagated /\ ~NegativeCycleBefore /\ SentinelLarge)
        => /\ AnyNegativeDiagonal(dist) <=> NegativeCycle
           /\ NegativeCycle <=> ClosesNegativeCycle

\* a propagated edge that closed a negative cycle through other vertices
IncrementalDetectionWitness ==
    /\ RelaxedAndPropagated /\ ~NegativeCycleBefore /\ SentinelLarge
    /\ call.u # call.v
    /\ NegativeCycle /\ AnyNegativeDiagonal(dist)
    /\ Cardinality(edges) >= 3

\* C17: no call ever increases an entry, every entry is always <= sentinel,
\* and an entry that has left the sentinel never returns to it.
MonotoneBounded ==
    \A i \in Vertices, j \in Vertices :
        /\ dist[i][j] <= old[i][j]
        /\ dist[i][j] <= inf
        /\ old[i][j] # inf => dist[i][j] # inf

\* a solve() that lowered an entry that was finite already
MonotoneBoundedWitness ==
    /\ call.op = "solve" /\ ret.at = "solved"
    /\ \E i \in Vertices, j \in Vertices :
          old[i][j] < inf /\ dist[i][j] < old[i][j]

\* C14: a solve() that has entered its loops always reaches its return with
\* _needs_solve cleared, whatever the matrix holds, negative cycles
\* included; its k, i and j stay within 0..n; and every solve() that has
\* returned has left the matrix valid, so one solve() brings every
\* reachable state back to Valid.
SolveCompletes ==
    /\ (loop # Idle) ~> (loop = Idle /\ ret.at = "solved" /\ ~needs_solve)
    /\ [](/\ loop.k \in 0 .. n
          /\ loop.i \in 0 .. n
          /\ loop.j \in 0 .. n)
    /\ []((loop = Idle /\ call.op = "solve") => ~needs_solve)

\* a solve() that started on a matrix with a negative diagonal entry has
\* run to its return
SolveCompletesWitness ==
    /\ loop = Idle /\ call.op = "solve" /\ ret.at = "solved"
    /\ AnyNegativeDiagonal(old) /\ NegativeCycle
    /\ dist # old

\* the statements of solve taken one by one compute what Solve computes
StepsComputeSolve ==
    (loop = Idle /\ call.op = "solve" /\ ret.at = "solved")
        => dist = FullSolve(old)

====
